---- MODULE Spec2Model ----
(***************************************************************************)
(* Audit trail of the administrative platform: the response-interception  *)
(* logger (auditLogMiddleware), the audit recorder (logAuditEntry) and    *)
(* the audit record store (auditLogSchema).                               *)
(***************************************************************************)
EXTENDS Integers, Sequences, FiniteSets, TLC

(***************************************************************************)
(* Bounds of the model.                                                    *)
(***************************************************************************)
\* res.json calls one handler may make on one response object
MaxCalls == 2
\* times auditLogMiddleware may be installed on one route
MaxInstalls == 2
\* length of a request path, in path tokens
MaxPathLen == 6
\* records the store holds in the store-only specification
MaxStore == 2

\* the requests of a behaviour: one in Spec, two in SpecMany
Reqs == {"r1", "r2"}
\* the user accounts
UserIds == {"u1"}
NoUser == "none"

(***************************************************************************)
(* Values.  A JavaScript value is modelled by a tag; Absent is undefined / *)
(* a missing property.                                                     *)
(***************************************************************************)
Absent == "absent"
\* values of body.success
SuccessValues == {"true", "false", Absent, "str"}
\* JavaScript truthiness of those values
Truthy(v) == v \in {"true", "str"}
\* identifier values are "oid1", "oid2", "u1" (24-hex strings), "bad" (another
\* non-empty string), "empty" ("") and Absent
IdTruthy(v) == v \notin {"empty", Absent}
\* the ObjectId cast of mongoose: a 24-hex string casts, other strings do not
CastsToObjectId(v) == v \in {"oid1", "oid2", "u1"}

\* Bodies a handler may hand to res.json. kind "object" carries the fields
\* success and data.id (dataId is "nodata" when body.data is missing).
NoData == "nodata"
Body(k, s, d) == [kind |-> k, success |-> s, dataId |-> d]
Bodies ==
    {Body("null", Absent, NoData), Body("undefined", Absent, NoData),
     Body("string", Absent, NoData)}
    \cup {Body("object", s, NoData) : s \in SuccessValues}
    \cup {Body("object", "true", "oid2")}

\* what the controllers hand to res.status(..).json(..): 201 with a created
\* document, 400 with a failure envelope, 200 with any other body
Output(st, b) == [status |-> st, body |-> b]
StatusOf(b) ==
    IF b.dataId # NoData THEN "201"
    ELSE IF b.success = "false" THEN "400" ELSE "200"
HandlerOutputs == {Output(StatusOf(b), b) : b \in Bodies}

(***************************************************************************)
(* Request paths: sequences of tokens. A token stands for a run of         *)
(* characters; "s" also stands for any other text.                         *)
(***************************************************************************)
PathTokens == {"/", "user", "service", "complaint", "event", "s"}
RECURSIVE SeqsUpTo(_, _)
SeqsUpTo(S, n) ==
    IF n = 0 THEN {<<>>}
    ELSE LET shorter == SeqsUpTo(S, n - 1)
         IN  shorter \cup {Append(p, t) : p \in {q \in shorter : Len(q) = n - 1}, t \in S}
\* req.path always starts with "/"
Paths == {<<"/">> \o p : p \in SeqsUpTo(PathTokens, MaxPathLen - 1)}
\* String.prototype.includes
Includes(path, pat) ==
    \E i \in 0..(Len(path) - Len(pat)) :
        \A j \in 1..Len(pat) : path[i + j] = pat[j]

\* the guarded routes of the main specification: path, path parameter id and
\* the action label given to auditLogMiddleware
Route(p, i, a) == [path |-> p, paramId |-> i, action |-> a]
Routes ==
    {Route(<<"/", "s">>, Absent, "audit_log_cleanup"),
     Route(<<"/", "user", "s">>, Absent, "bulk_operation"),
     Route(<<"/", "user", "s", "/", "s">>, "bad", "user_deleted")}
ActionLabels == {rt.action : rt \in Routes}

VARIABLES
    users,      \* users[u]: the display name of account u, Absent once deleted
    installs,   \* how many times auditLogMiddleware is installed on the routes
    req,        \* req[r]: the request r and its response object
    outputs,    \* what the handlers of this deployment hand to res.json
    identities, \* what the earlier middleware leaves in req.user
    runs,       \* the invocations of logAuditEntry, in start order
    store,      \* the AuditLog collection
    lastInsert, \* the latest AuditLog.create: document and outcome
    probe,      \* target inference applied to one path (SpecTarget)
    inserts,    \* how many documents AuditLog.create has inserted
    now,        \* the clock, in ticks of TickSeconds
    purge,      \* the purge request in progress: state, cutoff, deletedCount
    removals,   \* the removals from the AuditLog collection: record and cause
    listing,    \* one getAuditLogs request: collections, query, response
    io,         \* whether initializeWebSocket has set the server instance
    conns,      \* conns[c]: the socket c, its rooms and the join messages it sent
    emits,      \* the emissions so far: scope, target and receiving sockets
    ann,        \* the announcement document, as stored
    ops,        \* ops[o]: request o to an announcement handler
    events      \* the types of the events the announcement handlers broadcast

retentionVars == <<now, purge, removals>>
listVars == <<listing>>
socketVars == <<io, conns, emits>>
annVars == <<ann, ops, events>>
vars ==
    <<users, installs, outputs, identities, req, runs, store, lastInsert, probe,
      inserts, retentionVars, listVars, socketVars, annVars>>

(***************************************************************************)
(* auditLogMiddleware: the replacement of res.json                         *)
(***************************************************************************)
\* reading body.success throws a TypeError when body is null or undefined
BodySuccessThrows(body) == body.kind \in {"null", "undefined"}

\* a variant that logs on "body.success === true" only
ShouldLogStrict(body) == body.success = "true"

\* if (body.success)
ShouldLog(body) == Truthy(body.success)

\* a variant that starts the recorder before and after originalJson
RecorderStartsTwice(body, n) ==
    IF BodySuccessThrows(body) THEN 0
    ELSE IF ShouldLog(body) THEN n + 1 ELSE 0

\* one res.json call through n installed replacements: how many times
\* logAuditEntry is started before the body reaches the original res.json
RecorderStarts(body, n) ==
    IF BodySuccessThrows(body) THEN 0
    ELSE IF ShouldLog(body) THEN n ELSE 0

\* whether the call reaches originalJson(body)
ReachesOriginalJson(body) == ~BodySuccessThrows(body)

\* the response after the call: "return originalJson(body)" runs in the same
\* turn as the start of logAuditEntry, which is not awaited; the first body
\* that reaches the original res.json is the response
NoResponse == Output("none", Body("undefined", Absent, NoData))
\* a variant that awaits logAuditEntry before "return originalJson(body)"
SentAfterAwait(prev, out) ==
    IF ReachesOriginalJson(out.body) /\ prev = NoResponse /\ ~ShouldLog(out.body)
    THEN out ELSE prev

SentAfterCall(prev, out) ==
    IF ReachesOriginalJson(out.body) /\ prev = NoResponse THEN out ELSE prev

\* what the call throws into the handler: the TypeError of the replacement,
\* or the original res.json refusing a second response
RaisedByCall(prev, out) ==
    IF BodySuccessThrows(out.body) THEN {"interceptor"}
    ELSE IF prev # NoResponse THEN {"writer"} ELSE {}

(***************************************************************************)
(* logAuditEntry                                                           *)
(***************************************************************************)
TargetTypes == {"user", "service", "complaint", "event", "system"}

\* a variant that tests the services branch before the users branch
InferTargetTypeReordered(path) ==
    IF Includes(path, <<"/", "service", "s">>) THEN "service"
    ELSE IF Includes(path, <<"/", "user", "s">>) THEN "user"
    ELSE IF Includes(path, <<"/", "complaint", "s">>) THEN "complaint"
    ELSE IF Includes(path, <<"/", "event", "s">>) THEN "event"
    ELSE "system"

\* the if / else-if chain over req.path.includes(..)
InferTargetType(path) ==
    IF Includes(path, <<"/", "user", "s">>) THEN "user"
    ELSE IF Includes(path, <<"/", "service", "s">>) THEN "service"
    ELSE IF Includes(path, <<"/", "complaint", "s">>) THEN "complaint"
    ELSE IF Includes(path, <<"/", "event", "s">>) THEN "event"
    ELSE "system"

\* a || b on identifier values
IdOr(a, b) == IF IdTruthy(a) THEN a ELSE b
\* responseBody.data?.id
DataIdOf(dataId) == IF dataId = NoData THEN Absent ELSE dataId

\* a variant that prefers the id of the response over the path parameter
InferTargetIdDataFirst(path, paramId, dataId) ==
    IF Includes(path, <<"/", "user", "s">>) \/ Includes(path, <<"/", "service", "s">>)
       \/ Includes(path, <<"/", "complaint", "s">>) \/ Includes(path, <<"/", "event", "s">>)
    THEN IdOr(IdOr(DataIdOf(dataId), paramId), Absent)
    ELSE Absent

\* targetId is assigned inside the four branches only, then
\* "targetId || undefined" is stored
InferTargetId(path, paramId, dataId) ==
    IF InferTargetType(path) = "system" THEN Absent
    ELSE IdOr(IdOr(paramId, DataIdOf(dataId)), Absent)

\* the document handed to AuditLog.create
AuditDoc(userId, userName, action, path, paramId, dataId) ==
    [userId |-> userId, userName |-> userName, action |-> action,
     targetType |-> InferTargetType(path),
     targetId |-> InferTargetId(path, paramId, dataId)]

\* the synchronous start of logAuditEntry: "if (!req.user?.id) return"
StartState(user) == IF user = NoUser THEN "skipped" ELSE "lookup"

\* a variant without the "if (!user) return" guard
AfterLookupUnguarded(found) == "writing"

\* "if (!user) return" after User.findById
AfterLookup(found) == IF found THEN "writing" ELSE "skipped"

\* a variant whose catch block rethrows
RecorderRethrows(failed) == IF failed THEN "rejected" ELSE "resolved"

\* the try / catch around the whole body: an error is logged and the promise
\* resolves
RecorderCatch(failed) == "resolved"

(***************************************************************************)
(* auditLogSchema                                                          *)
(***************************************************************************)
\* required: a missing value and the empty string both fail
Required(v) == v \notin {Absent, "empty"}

\* a variant of the schema without the enum on targetType
ValidateWithoutEnum(doc) ==
    /\ Required(doc.userId) /\ CastsToObjectId(doc.userId)
    /\ Required(doc.userName)
    /\ Required(doc.action)
    /\ Required(doc.targetType)
    /\ doc.targetId = Absent \/ CastsToObjectId(doc.targetId)

ValidateAuditLog(doc) ==
    /\ Required(doc.userId) /\ CastsToObjectId(doc.userId)
    /\ Required(doc.userName)
    /\ Required(doc.action)
    /\ Required(doc.targetType) /\ doc.targetType \in TargetTypes
    /\ doc.targetId = Absent \/ CastsToObjectId(doc.targetId)

\* the stored document: the fields, the _id and the createdAt that
\* "timestamps: true" assigns. The _id is fresh: the number of the run of
\* logAuditEntry that wrote it, a number above MaxRuns otherwise
Stored(doc, id) ==
    [id |-> id, userId |-> doc.userId, userName |-> doc.userName,
     action |-> doc.action, targetType |-> doc.targetType,
     targetId |-> doc.targetId, createdAt |-> now]

\* AuditLog.create(doc): validate, then insert; dbOk is the database's answer
CreateAccepted(doc, dbOk) == dbOk /\ ValidateAuditLog(doc)

StoreAfterCreate(doc, dbOk, id) ==
    IF CreateAccepted(doc, dbOk) THEN store \cup {Stored(doc, id)} ELSE store
InsertsAfterCreate(doc, dbOk) ==
    IF CreateAccepted(doc, dbOk) THEN inserts + 1 ELSE inserts

(***************************************************************************)
(* State                                                                   *)
(***************************************************************************)
\* runs of logAuditEntry the model follows
MaxRuns == 3

NewRequest ==
    [st |-> "new", user |-> NoUser,
     route |-> Route(<<"/">>, Absent, Absent), calls |-> <<>>,
     sent |-> NoResponse, raised |-> {}]
NoDoc ==
    [userId |-> Absent, userName |-> Absent, action |-> Absent,
     targetType |-> Absent, targetId |-> Absent]
NoInsert == [doc |-> NoDoc, accepted |-> FALSE]
NoProbe ==
    [st |-> "off", path |-> <<"/">>, paramId |-> Absent, dataId |-> NoData,
     targetType |-> Absent, targetId |-> Absent]

\* no purge request yet. Of the latest call: its number, when it was called,
\* its daysOld, cutoff and deletedCount, the document it is deleting, the
\* daysOld of the call before it, and whether a record crossed the cutoff
\* between the two
NoPurge ==
    [st |-> "idle", calls |-> 0, at |-> 0, days |-> 0, cutoff |-> 0,
     deleted |-> 0, target |-> 0, prevDays |-> 0, crossed |-> FALSE]
NoListing == [st |-> "off"]

InitCommon ==
    /\ users = [u \in UserIds |-> "Jane Admin"]
    /\ runs = <<>>
    /\ store = {}
    /\ lastInsert = NoInsert
    /\ inserts = 0
    /\ now = 0
    /\ purge = NoPurge
    /\ removals = <<>>
InitNoListing == listing = NoListing
InitNoSocket == io = FALSE /\ conns = <<>> /\ emits = <<>>
\* no announcement, no request to the announcement handlers
NoDate == -1
NoAnnouncement ==
    [exists |-> FALSE, isPublished |-> FALSE, publishedAt |-> NoDate,
     views |-> 0]
InitNoAnnouncement == ann = NoAnnouncement /\ ops = <<>> /\ events = <<>>

Init ==
    /\ InitCommon
    /\ installs \in 1..MaxInstalls
    /\ outputs = HandlerOutputs
    /\ identities = UserIds \cup {NoUser}
    /\ req = [r \in {"r1"} |-> NewRequest]
    /\ probe = NoProbe
    /\ InitNoListing
    /\ InitNoSocket
    /\ InitNoAnnouncement

(***************************************************************************)
(* Actions of the request path                                             *)
(***************************************************************************)
\* requests are numbered in arrival order
Earlier(r) == IF r = "r2" THEN {"r1"} ELSE {}

\* the middleware returned by auditLogMiddleware(action): replaces res.json
\* and calls next()
Arrive(r) ==
    /\ req[r].st = "new"
    /\ \A q \in Earlier(r) \cap DOMAIN req : req[q].st # "new"
    /\ \E u \in identities, rt \in Routes :
        req' = [req EXCEPT ![r] =
                    [@ EXCEPT !.st = "handling", !.user = u, !.route = rt]]
    /\ UNCHANGED <<users, installs, outputs, identities, runs, store, lastInsert, probe,
                 inserts, retentionVars, listVars, socketVars,
                   annVars>>

\* a run of logAuditEntry as started by call number no of request r
NewRun(r, no, body) ==
    [req |-> r, call |-> no, dataId |-> body.dataId,
     st |-> StartState(req[r].user), userName |-> Absent,
     settled |-> IF StartState(req[r].user) = "skipped"
                 THEN RecorderCatch(FALSE) ELSE "pending",
     found |-> FALSE, dbOk |-> FALSE]

\* the handler calls res.status(out.status).json(out.body)
JsonCall(r) ==
    /\ req[r].st = "handling"
    /\ Len(req[r].calls) < MaxCalls
    /\ \E out \in outputs :
        LET n == RecorderStarts(out.body, installs)
            no == Len(req[r].calls) + 1
        IN  /\ Len(runs) + n <= MaxRuns
            /\ runs' = runs \o [i \in 1..n |-> NewRun(r, no, out.body)]
            /\ req' = [req EXCEPT ![r] =
                        [@ EXCEPT !.calls = Append(@, out),
                                  !.sent = SentAfterCall(@, out),
                                  !.raised = @ \cup RaisedByCall(req[r].sent, out)]]
    /\ UNCHANGED <<users, installs, outputs, identities, store, lastInsert, probe,
                 inserts, retentionVars, listVars, socketVars,
                   annVars>>

\* the handler returns
HandlerReturn(r) ==
    /\ req[r].st = "handling"
    /\ req' = [req EXCEPT ![r].st = "finished"]
    /\ UNCHANGED <<users, installs, outputs, identities, runs, store, lastInsert, probe,
                 inserts, retentionVars, listVars, socketVars,
                   annVars>>

(***************************************************************************)
(* Actions of logAuditEntry, detached from the request                     *)
(***************************************************************************)
\* User.findById(req.user.id) completes: the user as it is now, or an error
LookupDone(k) ==
    /\ runs[k].st = "lookup"
    /\ \E dbOk \in BOOLEAN :
        LET u == req[runs[k].req].user
            found == users[u] # Absent
        IN  runs' = [runs EXCEPT ![k] =
                IF dbOk
                THEN [@ EXCEPT !.st = AfterLookup(found), !.found = found,
                               !.userName = IF found THEN users[u] ELSE Absent,
                               !.settled = IF AfterLookup(found) = "skipped"
                                           THEN RecorderCatch(FALSE) ELSE @]
                ELSE [@ EXCEPT !.st = "failed", !.settled = RecorderCatch(TRUE)]]
    /\ UNCHANGED <<users, installs, outputs, identities, req, store, lastInsert, probe,
                 inserts, retentionVars, listVars, socketVars,
                   annVars>>

\* the document run k hands to AuditLog.create
RunDoc(k) ==
    LET q == req[runs[k].req]
    IN  AuditDoc(q.user, runs[k].userName, q.route.action, q.route.path,
                 q.route.paramId, runs[k].dataId)

\* AuditLog.create completes: the record is inserted, or the write fails
WriteDone(k) ==
    /\ runs[k].st = "writing"
    /\ \E dbOk \in BOOLEAN :
        LET ok == CreateAccepted(RunDoc(k), dbOk)
        IN  /\ store' = StoreAfterCreate(RunDoc(k), dbOk, k)
            /\ inserts' = InsertsAfterCreate(RunDoc(k), dbOk)
            /\ lastInsert' = [doc |-> RunDoc(k), accepted |-> ok]
            /\ runs' = [runs EXCEPT ![k] =
                    [@ EXCEPT !.st = IF ok THEN "written" ELSE "failed",
                              !.dbOk = dbOk,
                              !.settled = RecorderCatch(~ok)]]
    /\ UNCHANGED <<users, installs, outputs, identities, req, probe,
                 retentionVars, listVars, socketVars,
                   annVars>>

\* the AuditLog collection after deleteUser: the handler deletes from User
\* and from nothing else
AuditLogsCascaded(u) == {rec \in store : rec.userId # u}
AuditLogsAfterUserDelete(u) == store

\* deleteUser: User.findByIdAndDelete
DeleteUser(u) ==
    /\ users[u] # Absent
    /\ users' = [users EXCEPT ![u] = Absent]
    /\ store' = AuditLogsAfterUserDelete(u)
    /\ UNCHANGED <<installs, outputs, identities, req, runs, lastInsert, probe,
                 inserts, retentionVars, listVars, socketVars,
                   annVars>>

Next ==
    \/ \E r \in DOMAIN req : Arrive(r)
    \/ \E r \in DOMAIN req : JsonCall(r)
    \/ \E r \in DOMAIN req : HandlerReturn(r)
    \/ \E k \in 1..Len(runs) : LookupDone(k)
    \/ \E k \in 1..Len(runs) : WriteDone(k)
    \/ \E u \in UserIds : DeleteUser(u)

Spec == Init /\ [][Next]_vars

\* several requests, authenticated as the routes of adminRoutes.ts require,
\* whose handlers answer { success: true } through one interceptor per route
SuccessOutputs == {Output("200", Body("object", "true", NoData))}
InitMany ==
    /\ InitCommon
    /\ installs = 1
    /\ outputs = SuccessOutputs
    /\ identities = UserIds
    /\ req = [r \in Reqs |-> NewRequest]
    /\ probe = NoProbe
    /\ InitNoListing
    /\ InitNoSocket
    /\ InitNoAnnouncement

SpecMany == InitMany /\ [][Next]_vars

(***************************************************************************)
(* The store alone: AuditLog.create applied to any document                *)
(***************************************************************************)
CandidateDocs ==
    [userId : {Absent, "u1", "bad"},
     userName : {Absent, "empty", "Jane Admin"},
     action : {Absent, "empty", "bulk_operation"},
     targetType : {Absent, "user", "system", "announcement"},
     targetId : {Absent, "oid1", "bad"}]

AuditLogCreate(doc) ==
    /\ Cardinality(store) < MaxStore
    /\ \E dbOk \in BOOLEAN :
        /\ store' = StoreAfterCreate(doc, dbOk, MaxRuns + inserts + 1)
        /\ inserts' = InsertsAfterCreate(doc, dbOk)
        /\ lastInsert' = [doc |-> doc, accepted |-> CreateAccepted(doc, dbOk)]
    /\ UNCHANGED <<users, installs, outputs, identities, req, runs, probe,
                 retentionVars, listVars, socketVars,
                   annVars>>

InitStore ==
    /\ InitCommon
    /\ installs = 1
    /\ outputs = {}
    /\ identities = {}
    /\ req = [r \in {} |-> NewRequest]
    /\ probe = NoProbe
    /\ InitNoListing
    /\ InitNoSocket
    /\ InitNoAnnouncement

NextStore == \E doc \in CandidateDocs : AuditLogCreate(doc)

SpecStore == InitStore /\ [][NextStore]_vars

(***************************************************************************)
(* Target inference alone: logAuditEntry's target fields for any path      *)
(***************************************************************************)
ProbeParamIds == {Absent, "oid1"}
ProbeDataIds == {NoData, "empty", "oid2"}

InitTarget ==
    /\ InitCommon
    /\ installs = 1
    /\ outputs = {}
    /\ identities = {}
    /\ req = [r \in {} |-> NewRequest]
    /\ \E p \in Paths, i \in ProbeParamIds, d \in ProbeDataIds :
        probe = [NoProbe EXCEPT !.st = "input", !.path = p, !.paramId = i,
                                !.dataId = d]
    /\ InitNoListing
    /\ InitNoSocket
    /\ InitNoAnnouncement

\* the target fields of the document logAuditEntry builds
ProbeRecord ==
    /\ probe.st = "input"
    /\ LET doc == AuditDoc("u1", "Jane Admin", "bulk_operation", probe.path,
                           probe.paramId, probe.dataId)
       IN  probe' = [probe EXCEPT !.st = "recorded",
                                  !.targetType = doc.targetType,
                                  !.targetId = doc.targetId]
    /\ UNCHANGED <<users, installs, outputs, identities, req, runs, store,
                   lastInsert,
                 inserts, retentionVars, listVars, socketVars,
                   annVars>>

NextTarget == ProbeRecord

SpecTarget == InitTarget /\ [][NextTarget]_vars

(***************************************************************************)
(* Retention: the TTL index on createdAt, the purge endpoint, and the      *)
(* other operations that reach the users and the AuditLog collection       *)
(***************************************************************************)
\* ticks of the clock, and purge requests, the model follows
MaxTime == 5
MaxPurges == 2
\* documents inserted in the behaviours with retention
MaxInserts == 2

DaySeconds == 24 * 3600
\* one tick of the clock is thirty days
TickSeconds == 30 * DaySeconds
Seconds(t) == t * TickSeconds

UserNames == {"Jane Admin", "Jane Roe"}

\* the AuditLog collection after updateUser: the handler updates the User
\* document and nothing else
AuditLogsRejoined(u, n) ==
    {[rec EXCEPT !.userName = IF rec.userId = u THEN n ELSE @] : rec \in store}
AuditLogsAfterUserUpdate(u, n) == store

\* updateUser: User.findByIdAndUpdate with a new name; a missing user is a 404
RenameUser(u) ==
    /\ users[u] # Absent
    /\ \E n \in UserNames \ {users[u]} :
        /\ users' = [users EXCEPT ![u] = n]
        /\ store' = AuditLogsAfterUserUpdate(u, n)
    /\ UNCHANGED <<installs, outputs, identities, req, runs, lastInsert,
                   probe, inserts, retentionVars, listVars, socketVars,
                   annVars>>

\* logAuditEntry for a request of user u to the cleanup route, as one step:
\* the user is looked up, skipped when missing, and the record is created
\* with the name the user has now
CleanupRoute == Route(<<"/", "s">>, Absent, "audit_log_cleanup")
LogAuditEntry(u) ==
    /\ inserts < MaxInserts
    /\ AfterLookup(users[u] # Absent) = "writing"
    /\ \E dbOk \in BOOLEAN :
        LET doc == AuditDoc(u, users[u], CleanupRoute.action,
                            CleanupRoute.path, CleanupRoute.paramId, NoData)
        IN  /\ store' = StoreAfterCreate(doc, dbOk, MaxRuns + inserts + 1)
            /\ inserts' = InsertsAfterCreate(doc, dbOk)
    /\ UNCHANGED <<users, installs, outputs, identities, req, runs, lastInsert,
                   probe, retentionVars, listVars, socketVars,
                   annVars>>

Tick ==
    /\ now < MaxTime
    /\ now' = now + 1
    /\ UNCHANGED <<users, installs, outputs, identities, req, runs, store,
                   lastInsert, probe, inserts, purge, removals, listVars,
                   socketVars,
                   annVars>>

\* one removal from the collection: the record, and who removed it
Removal(rec, by, call) ==
    [id |-> rec.id, createdAt |-> rec.createdAt, by |-> by, call |-> call]
\* the log of removals, kept in the order of the records' ids
LogRemoval(log, rm) ==
    LET before == SelectSeq(log, LAMBDA x : x.id <= rm.id)
        after == SelectSeq(log, LAMBDA x : x.id > rm.id)
    IN  before \o <<rm>> \o after
RECURSIVE LogRemovals(_, _, _)
LogRemovals(log, recs, by) ==
    IF recs = {} THEN log
    ELSE LET rec == CHOOSE x \in recs : TRUE
         IN  LogRemovals(LogRemoval(log, Removal(rec, by, 0)), recs \ {rec}, by)

\* the TTL index: { createdAt: 1 }, expireAfterSeconds
ExpireAfterMonth == 30 * DaySeconds
ExpireAfterSeconds == 7776000
Age(rec) == Seconds(now) - Seconds(rec.createdAt)
TtlExpired(rec) == Age(rec) > ExpireAfterSeconds

\* the database's TTL monitor removes one expired document
TtlSweep(rec) ==
    /\ rec \in store
    /\ TtlExpired(rec)
    /\ store' = store \ {rec}
    /\ removals' = LogRemoval(removals, Removal(rec, "ttl", 0))
    /\ UNCHANGED <<users, installs, outputs, identities, req, runs, lastInsert,
                   probe, inserts, now, purge, listVars, socketVars,
                   annVars>>

\* seedDatabase: dropDatabase() removes every collection, the users and the
\* audit records included; the users it then inserts have new ids
SeedDatabase ==
    /\ store # {} \/ \E u \in UserIds : users[u] # Absent
    /\ store' = {}
    /\ users' = [u \in UserIds |-> Absent]
    /\ removals' = LogRemovals(removals, store, "seed")
    /\ UNCHANGED <<installs, outputs, identities, req, runs, lastInsert, probe,
                   inserts, now, purge, listVars, socketVars,
                   annVars>>

\* DELETE /audit-logs/cleanup (deleteOldAuditLogs): daysOld, 90 when absent
DefaultDaysOld == 90
DaysOldValues == {[given |-> FALSE, n |-> 0], [given |-> TRUE, n |-> 30]}
EffectiveDays(d) == IF d.given THEN d.n ELSE DefaultDaysOld
PurgeCutoff(at, days) == Seconds(at) - days * DaySeconds
PurgeMatchesNow(rec, cutoff) ==
    Seconds(rec.createdAt) < PurgeCutoff(now, purge.days)
PurgeMatches(rec, cutoff) == Seconds(rec.createdAt) < cutoff
\* a record that was not older than the previous cutoff is older than this one
Crossed(prevCutoff, cutoff) ==
    \E rec \in store :
        ~PurgeMatches(rec, prevCutoff) /\ PurgeMatches(rec, cutoff)

\* the purge is called: the cutoff is computed from the clock, once
PurgeStart(d) ==
    /\ purge.st = "idle"
    /\ purge.calls < MaxPurges
    /\ LET days == EffectiveDays(d)
           cutoff == PurgeCutoff(now, days)
       IN  purge' = [st |-> "running", calls |-> purge.calls + 1, at |-> now,
                     days |-> days, cutoff |-> cutoff, deleted |-> 0,
                     target |-> 0, prevDays |-> purge.days,
                     crossed |-> Crossed(purge.cutoff, cutoff)]
    /\ UNCHANGED <<users, installs, outputs, identities, req, runs, store,
                   lastInsert, probe, inserts, now, removals, listVars,
                   socketVars,
                   annVars>>

\* the delete finds a document older than the cutoff
PurgePick(rec) ==
    /\ purge.st = "running"
    /\ purge.target = 0
    /\ rec \in store
    /\ PurgeMatches(rec, purge.cutoff)
    /\ purge' = [purge EXCEPT !.target = rec.id]
    /\ UNCHANGED <<users, installs, outputs, identities, req, runs, store,
                   lastInsert, probe, inserts, now, removals, listVars,
                   socketVars,
                   annVars>>

CountAlways(n, removed) == n + 1
CountAfterDelete(n, removed) == IF removed THEN n + 1 ELSE n

\* the delete removes the document it found, if it is still there, and
\* counts it
PurgeDelete ==
    /\ purge.st = "running"
    /\ purge.target # 0
    /\ LET found == {rec \in store : rec.id = purge.target}
       IN  /\ store' = store \ found
           /\ removals' =
                IF found = {} THEN removals
                ELSE LogRemoval(removals,
                                Removal(CHOOSE rec \in found : TRUE, "purge",
                                        purge.calls))
           /\ purge' = [purge EXCEPT
                    !.target = 0,
                    !.deleted = CountAfterDelete(@, found # {})]
    /\ UNCHANGED <<users, installs, outputs, identities, req, runs, lastInsert,
                   probe, inserts, now, listVars, socketVars,
                   annVars>>

PurgeFinishedEarly(cutoff) == TRUE
PurgeFinished(cutoff) == \A rec \in store : ~PurgeMatches(rec, cutoff)

\* the purge answers { deletedCount }
PurgeReturn ==
    /\ purge.st = "running"
    /\ purge.target = 0
    /\ PurgeFinished(purge.cutoff)
    /\ purge' = [purge EXCEPT !.st = "idle"]
    /\ UNCHANGED <<users, installs, outputs, identities, req, runs, store,
                   lastInsert, probe, inserts, now, removals, listVars,
                   socketVars,
                   annVars>>

InitRetention ==
    /\ InitCommon
    /\ installs = 1
    /\ outputs = SuccessOutputs
    /\ identities = UserIds
    /\ req = [r \in {} |-> NewRequest]
    /\ probe = NoProbe
    /\ InitNoListing
    /\ InitNoSocket
    /\ InitNoAnnouncement

NextRetention ==
    \/ \E u \in UserIds : LogAuditEntry(u)
    \/ \E u \in UserIds : DeleteUser(u)
    \/ \E u \in UserIds : RenameUser(u)
    \/ Tick
    \/ \E rec \in store : TtlSweep(rec)
    \/ SeedDatabase
    \/ \E d \in DaysOldValues : PurgeStart(d)
    \/ \E rec \in store : PurgePick(rec)
    \/ PurgeDelete
    \/ PurgeReturn

SpecRetention == InitRetention /\ [][NextRetention]_vars

(***************************************************************************)
(* The listing: GET /audit-logs, getAuditLogs                              *)
(***************************************************************************)
\* complaints and services in the database
MaxItems == 3

Max(a, b) == IF a >= b THEN a ELSE b
Min(a, b) == IF a <= b THEN a ELSE b
Abs(n) == IF n < 0 THEN 0 - n ELSE n

\* a query parameter as sent: absent, not a number, or an integer
QueryNumbers ==
    {[k |-> "absent", n |-> 0], [k |-> "text", n |-> 0]}
        \cup [k : {"int"}, n : -1..3]
NaN == [nan |-> TRUE, n |-> 0]
\* parseInt(req.query.x as string)
ParseInt(q) == IF q.k = "int" THEN [nan |-> FALSE, n |-> q.n] ELSE NaN
\* v || d: NaN and 0 are falsy, every other number is truthy
OrDefault(v, d) == IF v.nan \/ v.n = 0 THEN d ELSE v.n
DefaultPage == 1
DefaultLimit == 50
PageOf(q) == OrDefault(ParseInt(q), DefaultPage)
LimitOf(q) == OrDefault(ParseInt(q), DefaultLimit)
SkipOf(page, limit) == (page - 1) * limit

\* the filters of the query string; getAuditLogs reads none of them
NoFilters ==
    [action |-> Absent, targetType |-> Absent, actorId |-> Absent,
     startDate |-> NoDate, endDate |-> NoDate]
FilterSets ==
    {NoFilters,
     [NoFilters EXCEPT !.action = "user_deleted"],
     [NoFilters EXCEPT !.targetType = "user"],
     [NoFilters EXCEPT !.actorId = "u1"],
     [NoFilters EXCEPT !.startDate = 1, !.endDate = 1]}
Queries == [page : QueryNumbers, limit : QueryNumbers, filters : FilterSets]

\* the complaints and services: each instant of updatedAt belongs to a
\* complaint, to a service, or to nothing
ItemKinds == {"none", "complaint", "service"}
ItemsOf(kinds, kind) ==
    {[type |-> kind, updatedAt |-> t] : t \in {x \in DOMAIN kinds : kinds[x] = kind}}

\* .sort({ updatedAt: -1 }), and the sort of the merged entries by timestamp
\* key[x] is the instant the element x is sorted by
RECURSIVE SortDesc(_, _)
SortDesc(items, key) ==
    IF items = {} THEN <<>>
    ELSE LET first == CHOOSE x \in items : \A y \in items : key[x] >= key[y]
         IN  <<first>> \o SortDesc(items \ {first}, key)
\* .limit(n): the first |n| documents (a negative limit is a single batch
\* of that size)
Limited(docs, n) == SubSeq(docs, 1, Min(Abs(n), Len(docs)))
Find(items, limit) ==
    Limited(SortDesc(items, [x \in items |-> x.updatedAt]), limit)

\* the entry built from a complaint or a service
Entry(item) ==
    [type |-> item.type, action |-> "updated", timestamp |-> item.updatedAt]
Range(seq) == {seq[i] : i \in DOMAIN seq}
Merged(complaints, services) ==
    LET entries == {Entry(c) : c \in Range(complaints)}
                        \cup {Entry(x) : x \in Range(services)}
    IN  SortDesc(entries, [e \in entries |-> e.timestamp])

\* Array.prototype.slice(start, end): a negative index counts from the end
SliceIndex(i, len) == IF i < 0 THEN Max(len + i, 0) ELSE Min(i, len)
Slice(seq, start, end) ==
    LET from == SliceIndex(start, Len(seq))
        to == SliceIndex(end, Len(seq))
    IN  IF from >= to THEN <<>> ELSE SubSeq(seq, from + 1, to)

\* Math.ceil(a / b) for b # 0
Ceil(a, b) ==
    IF b > 0 THEN (a + b - 1) \div b ELSE 0 - (a \div (0 - b))

\* total: logs.length, the length of the page that was cut
TotalOf(logs) == Len(logs)

\* the response of getAuditLogs
ListResponse(kinds, q) ==
    LET page == PageOf(q.page)
        limit == LimitOf(q.limit)
        skip == SkipOf(page, limit)
        complaints == Find(ItemsOf(kinds, "complaint"), limit)
        services == Find(ItemsOf(kinds, "service"), limit)
        all == Merged(complaints, services)
        logs == Slice(all, skip, skip + limit)
    IN  [success |-> "true", data |-> logs, page |-> page, limit |-> limit,
         skip |-> skip, total |-> TotalOf(logs),
         pages |-> Ceil(TotalOf(logs), limit)]

\* a stored audit record, inserted at instant t
AuditRecord(t) ==
    [id |-> t, userId |-> "u1", userName |-> "Jane Admin",
     action |-> IF t = 1 THEN "user_deleted" ELSE "bulk_operation",
     targetType |-> IF t = 1 THEN "user" ELSE "system",
     targetId |-> IF t = 1 THEN "oid1" ELSE Absent, createdAt |-> t]

InitList ==
    /\ users = [u \in UserIds |-> "Jane Admin"]
    /\ installs = 1
    /\ outputs = {}
    /\ identities = {}
    /\ req = [r \in {} |-> NewRequest]
    /\ runs = <<>>
    /\ \E n \in 0..MaxStore :
        /\ store = {AuditRecord(t) : t \in 1..n}
        /\ inserts = n
    /\ lastInsert = NoInsert
    /\ probe = NoProbe
    /\ now = MaxStore
    /\ purge = NoPurge
    /\ removals = <<>>
    /\ \E kinds \in [1..MaxItems -> ItemKinds] :
        listing = [st |-> "ready", kinds |-> kinds]
    /\ InitNoSocket
    /\ InitNoAnnouncement

\* GET /audit-logs with query q
GetAuditLogs(q) ==
    /\ listing.st = "ready"
    /\ listing' = [st |-> "done", kinds |-> listing.kinds, query |-> q,
                   resp |-> ListResponse(listing.kinds, q)]
    /\ UNCHANGED <<users, installs, outputs, identities, req, runs, store,
                   lastInsert, probe, inserts, retentionVars, socketVars,
                   annVars>>

NextList == \E q \in Queries : GetAuditLogs(q)

SpecList == InitList /\ [][NextList]_vars

(***************************************************************************)
(* The notification fan-out: rooms of the WebSocket server                 *)
(***************************************************************************)
\* sockets that connect
MaxConns == 2
Conns == 1..MaxConns

\* what a client sends as the userId of "join" or the role of "join-role";
\* the server checks neither
Names == {"u1", "staff"}

\* `user:${userId}` and `role:${role}`
RoomName(prefix, id) == <<prefix, id>>
UserRoom(userId) == RoomName("user:", userId)
RoleRoomAsUser(role) == RoomName("user:", role)
RoleRoom(role) == RoomName("role:", role)

NoSocket == [st |-> "new", rooms |-> {}, joins |-> {}]

\* socket.join(room): the socket's rooms with this one among them
AfterJoinToggled(rooms, room) ==
    IF room \in rooms THEN rooms \ {room} ELSE rooms \cup {room}
AfterJoin(rooms, room) == rooms \cup {room}

\* initializeWebSocket: io = new SocketIOServer(...)
InitializeWebSocket ==
    /\ ~io
    /\ io' = TRUE
    /\ UNCHANGED <<users, installs, outputs, identities, req, runs, store,
                   lastInsert, probe, inserts, retentionVars, listVars, conns,
                   emits,
                   annVars>>

\* io.on("connection"): a client connects
Connect(c) ==
    /\ io
    /\ conns[c].st = "new"
    /\ conns' = [conns EXCEPT ![c].st = "connected"]
    /\ UNCHANGED <<users, installs, outputs, identities, req, runs, store,
                   lastInsert, probe, inserts, retentionVars, listVars, io,
                   emits,
                   annVars>>

\* socket.on("join", userId): socket.join(`user:${userId}`)
Join(c, userId) ==
    /\ conns[c].st = "connected"
    /\ conns' = [conns EXCEPT
                    ![c].rooms = AfterJoin(@, UserRoom(userId)),
                    ![c].joins = @ \cup {[event |-> "join", id |-> userId]}]
    /\ UNCHANGED <<users, installs, outputs, identities, req, runs, store,
                   lastInsert, probe, inserts, retentionVars, listVars, io,
                   emits,
                   annVars>>

\* socket.on("join-role", role): socket.join(`role:${role}`)
JoinRole(c, role) ==
    /\ conns[c].st = "connected"
    /\ conns' = [conns EXCEPT
                    ![c].rooms = AfterJoin(@, RoleRoom(role)),
                    ![c].joins = @ \cup {[event |-> "join-role", id |-> role]}]
    /\ UNCHANGED <<users, installs, outputs, identities, req, runs, store,
                   lastInsert, probe, inserts, retentionVars, listVars, io,
                   emits,
                   annVars>>

\* the client disconnects: the socket leaves its rooms; the handler only logs
Disconnect(c) ==
    /\ conns[c].st = "connected"
    /\ conns' = [conns EXCEPT ![c] = [st |-> "closed", rooms |-> {},
                                      joins |-> {}]]
    /\ UNCHANGED <<users, installs, outputs, identities, req, runs, store,
                   lastInsert, probe, inserts, retentionVars, listVars, io,
                   emits,
                   annVars>>

EverySocket == Conns
Connected == {c \in Conns : conns[c].st = "connected"}
\* io.to(room).emit: the connected sockets in the room
InRoom(room) == {c \in Connected : room \in conns[c].rooms}
\* one emission: its scope, its target and the sockets it is delivered to
Emission(scope, target, to) == [scope |-> scope, target |-> target, to |-> to]
\* without a server instance nothing is emitted; the latest emission is kept
Emitted(e) == IF io THEN <<e>> ELSE emits

\* emitToUser(userId, event, data)
EmitToUser(userId) ==
    /\ emits' = Emitted(Emission("user", userId, InRoom(UserRoom(userId))))
    /\ UNCHANGED <<users, installs, outputs, identities, req, runs, store,
                   lastInsert, probe, inserts, retentionVars, listVars, io,
                   conns,
                   annVars>>

\* emitToRole(role, event, data)
EmitToRole(role) ==
    /\ emits' = Emitted(Emission("role", role, InRoom(RoleRoom(role))))
    /\ UNCHANGED <<users, installs, outputs, identities, req, runs, store,
                   lastInsert, probe, inserts, retentionVars, listVars, io,
                   conns,
                   annVars>>

\* broadcastToAll(data): io.emit("notification", data)
BroadcastToAll ==
    /\ emits' = Emitted(Emission("all", "all", Connected))
    /\ UNCHANGED <<users, installs, outputs, identities, req, runs, store,
                   lastInsert, probe, inserts, retentionVars, listVars, io,
                   conns,
                   annVars>>

InitSocket ==
    /\ InitCommon
    /\ installs = 1
    /\ outputs = {}
    /\ identities = {}
    /\ req = [r \in {} |-> NewRequest]
    /\ probe = NoProbe
    /\ InitNoListing
    /\ io = FALSE
    /\ conns = [c \in Conns |-> NoSocket]
    /\ emits = <<>>
    /\ InitNoAnnouncement

NextSocket ==
    \/ InitializeWebSocket
    \/ \E c \in Conns : Connect(c)
    \/ \E c \in Conns, userId \in Names : Join(c, userId)
    \/ \E c \in Conns, role \in Names : JoinRole(c, role)
    \/ \E c \in Conns : Disconnect(c)
    \/ \E userId \in Names : EmitToUser(userId)
    \/ \E role \in Names : EmitToRole(role)
    \/ BroadcastToAll

SpecSocket == InitSocket /\ [][NextSocket]_vars

(***************************************************************************)
(* The announcement handlers, on one announcement                          *)
(***************************************************************************)
\* requests to the announcement handlers
MaxOps == 2
OpIds == 1..MaxOps

\* req.body.isPublished of a create or an update
BodyFlags == {"absent", "true", "false"}
\* req.user.role of a reader; "none" is a request without a user
ReaderRoles == {"none", "resident", "staff"}

\* AnnouncementSchema.pre("save"); stamp stands for new Date()
PreSave(doc, modified, stamp) ==
    IF modified /\ doc.isPublished /\ doc.publishedAt = NoDate
    THEN [doc EXCEPT !.publishedAt = stamp] ELSE doc

\* a request: its handler, where it is, the document it holds, its answer,
\* whether it committed a change, whether that change took the announcement
\* out of the published state, and whether its emit call threw
NoOp ==
    [kind |-> "none", st |-> "new", local |-> NoAnnouncement,
     status |-> "none", committed |-> FALSE, unpublished |-> FALSE,
     threw |-> FALSE]
Unpublishes(before, after) ==
    before.exists /\ before.isPublished /\ ~(after.exists /\ after.isPublished)
Answer(o, kind, status) ==
    [ops EXCEPT ![o] = [@ EXCEPT !.kind = kind, !.st = "done",
                                 !.status = status]]
Commit(o, kind, doc, after) ==
    [ops EXCEPT ![o] = [@ EXCEPT !.kind = kind, !.st = "committed",
                                 !.local = doc, !.committed = TRUE,
                                 !.unpublished = Unpublishes(ann, after)]]

\* createAnnouncement: Announcement.create(announcementData)
CreateAnnouncement(o, flag) ==
    /\ ops[o].st = "new"
    /\ ~ann.exists
    /\ LET doc == PreSave([exists |-> TRUE, isPublished |-> flag = "true",
                           publishedAt |-> NoDate, views |-> 0],
                          flag # "absent", o)
       IN  ann' = doc /\ ops' = Commit(o, "create", doc, doc)
    /\ UNCHANGED <<users, installs, outputs, identities, req, runs, store,
                   lastInsert, probe, inserts, retentionVars, listVars,
                   socketVars, events>>

\* updateAnnouncement: Announcement.findByIdAndUpdate(id, req.body)
UpdateAnnouncement(o, flag) ==
    /\ ops[o].st = "new"
    /\ IF ann.exists
       THEN LET doc == [ann EXCEPT !.isPublished =
                            IF flag = "absent" THEN @ ELSE flag = "true"]
            IN  ann' = doc /\ ops' = Commit(o, "update", doc, doc)
       ELSE ann' = ann /\ ops' = Answer(o, "update", "404")
    /\ UNCHANGED <<users, installs, outputs, identities, req, runs, store,
                   lastInsert, probe, inserts, retentionVars, listVars,
                   socketVars, events>>

\* deleteAnnouncement: Announcement.findByIdAndDelete(id)
DeleteAnnouncement(o) ==
    /\ ops[o].st = "new"
    /\ IF ann.exists
       THEN /\ ann' = NoAnnouncement
            /\ ops' = Commit(o, "delete", ann, NoAnnouncement)
       ELSE ann' = ann /\ ops' = Answer(o, "delete", "404")
    /\ UNCHANGED <<users, installs, outputs, identities, req, runs, store,
                   lastInsert, probe, inserts, retentionVars, listVars,
                   socketVars, events>>

\* togglePublishAnnouncement: Announcement.findById(id)
FindToToggle(o) ==
    /\ ops[o].st = "new"
    /\ ops' = IF ann.exists
              THEN [ops EXCEPT ![o] = [@ EXCEPT !.kind = "toggle",
                                                !.st = "loaded", !.local = ann]]
              ELSE Answer(o, "toggle", "404")
    /\ UNCHANGED <<users, installs, outputs, identities, req, runs, store,
                   lastInsert, probe, inserts, retentionVars, listVars,
                   socketVars, ann, events>>

\* announcement.isPublished = !announcement.isPublished, then save(): the
\* modified paths of the loaded document are written; the save of a document
\* deleted meanwhile fails
SaveToggled(o) ==
    /\ ops[o].st = "loaded"
    /\ ops[o].kind = "toggle"
    /\ LET doc == PreSave([ops[o].local EXCEPT !.isPublished = ~@], TRUE, o)
           after == [ann EXCEPT !.isPublished = doc.isPublished,
                                !.publishedAt =
                                    IF doc.publishedAt # ops[o].local.publishedAt
                                    THEN doc.publishedAt ELSE @]
       IN  IF ann.exists
           THEN ann' = after /\ ops' = Commit(o, "toggle", doc, after)
           ELSE ann' = ann /\ ops' = Answer(o, "toggle", "500")
    /\ UNCHANGED <<users, installs, outputs, identities, req, runs, store,
                   lastInsert, probe, inserts, retentionVars, listVars,
                   socketVars, events>>

\* getAnnouncementById: Announcement.findById(id), 404, 403
FindToView(o, role) ==
    /\ ops[o].st = "new"
    /\ ops' = IF ~ann.exists THEN Answer(o, "get", "404")
              ELSE IF ~ann.isPublished /\ role \notin {"admin", "staff"}
                   THEN Answer(o, "get", "403")
                   ELSE [ops EXCEPT ![o] = [@ EXCEPT !.kind = "get",
                                                     !.st = "loaded",
                                                     !.local = ann]]
    /\ UNCHANGED <<users, installs, outputs, identities, req, runs, store,
                   lastInsert, probe, inserts, retentionVars, listVars,
                   socketVars, ann, events>>

\* announcement.views += 1; save(); res.json
SaveViewed(o) ==
    /\ ops[o].st = "loaded"
    /\ ops[o].kind = "get"
    /\ IF ann.exists
       THEN /\ ann' = [ann EXCEPT !.views = ops[o].local.views + 1]
            /\ ops' = Answer(o, "get", "200")
       ELSE ann' = ann /\ ops' = Answer(o, "get", "500")
    /\ UNCHANGED <<users, installs, outputs, identities, req, runs, store,
                   lastInsert, probe, inserts, retentionVars, listVars,
                   socketVars, events>>

\* the type a handler passes to broadcastToAll, "none" when it does not call it
EventOf(kind, doc) ==
    CASE kind = "create" ->
            IF doc.isPublished THEN "NEW_ANNOUNCEMENT" ELSE "none"
      [] kind = "update" ->
            IF doc.isPublished THEN "ANNOUNCEMENT_UPDATED" ELSE "none"
      [] kind = "delete" -> "ANNOUNCEMENT_DELETED"
      [] kind = "toggle" ->
            IF doc.isPublished THEN "ANNOUNCEMENT_PUBLISHED"
            ELSE "ANNOUNCEMENT_UNPUBLISHED"
SuccessStatus(kind) == IF kind = "create" THEN "201" ELSE "200"

\* the rest of a handler after its change is committed: broadcastToAll, which
\* emits when the server instance is set and may throw in io.emit, then the
\* success response; an exception reaches the handler's catch, which
\* answers 500
BroadcastAndRespond(o) ==
    /\ ops[o].st = "committed"
    /\ LET type == EventOf(ops[o].kind, ops[o].local)
           emitting == io /\ type # "none"
       IN  \E throws \in {t \in BOOLEAN : t => emitting} :
            /\ events' = IF emitting /\ ~throws THEN Append(events, type)
                         ELSE events
            /\ ops' = [ops EXCEPT ![o] =
                        [@ EXCEPT !.st = "done", !.threw = throws,
                                  !.status = IF throws THEN "500"
                                             ELSE SuccessStatus(ops[o].kind)]]
    /\ UNCHANGED <<users, installs, outputs, identities, req, runs, store,
                   lastInsert, probe, inserts, retentionVars, listVars,
                   socketVars, ann>>

InitAnnouncements ==
    /\ InitCommon
    /\ installs = 1
    /\ outputs = {}
    /\ identities = {}
    /\ req = [r \in {} |-> NewRequest]
    /\ probe = NoProbe
    /\ InitNoListing
    /\ io \in BOOLEAN
    /\ conns = <<>>
    /\ emits = <<>>
    /\ ann \in {NoAnnouncement,
                [NoAnnouncement EXCEPT !.exists = TRUE],
                [NoAnnouncement EXCEPT !.exists = TRUE, !.isPublished = TRUE,
                                       !.publishedAt = 0]}
    /\ ops = [o \in OpIds |-> NoOp]
    /\ events = <<>>

NextAnnouncements ==
    \/ \E o \in OpIds, flag \in BodyFlags : CreateAnnouncement(o, flag)
    \/ \E o \in OpIds, flag \in BodyFlags : UpdateAnnouncement(o, flag)
    \/ \E o \in OpIds : DeleteAnnouncement(o)
    \/ \E o \in OpIds : FindToToggle(o)
    \/ \E o \in OpIds : SaveToggled(o)
    \/ \E o \in OpIds, role \in ReaderRoles : FindToView(o, role)
    \/ \E o \in OpIds : SaveViewed(o)
    \/ \E o \in OpIds : BroadcastAndRespond(o)

SpecAnnouncements == InitAnnouncements /\ [][NextAnnouncements]_vars

(***************************************************************************)
(* Properties of the response-interception logger                          *)
(***************************************************************************)
RunsOf(r) == {k \in 1..Len(runs) : runs[k].req = r}
RunsOfCall(r, n) == {k \in RunsOf(r) : runs[k].call = n}
\* a body with a truthy success field: an object (or a primitive, which has
\* no such field) whose success is true or a non-empty string
HasTruthySuccess(body) ==
    body.kind \notin {"null", "undefined"} /\ body.success \in {"true", "str"}
\* the response the handler produced: the first body the original res.json
\* can be given
RECURSIVE FirstWritable(_)
FirstWritable(calls) ==
    IF calls = <<>> THEN NoResponse
    ELSE IF Head(calls).body.kind \in {"null", "undefined"}
         THEN FirstWritable(Tail(calls))
         ELSE Head(calls)

\* C1: for every res.json call of a guarded request, logAuditEntry is
\* started if and only if the body has a truthy success field; no stored
\* audit record stems from a call whose success is false or absent.
C1_LogIffTruthySuccess ==
    /\ \A r \in DOMAIN req : \A n \in 1..Len(req[r].calls) :
        (RunsOfCall(r, n) # {}) <=> HasTruthySuccess(req[r].calls[n].body)
    /\ \A rec \in store : rec.id <= Len(runs) =>
        HasTruthySuccess(req[runs[rec.id].req].calls[runs[rec.id].call].body)

C1_Witness ==
    \E r \in DOMAIN req :
        /\ Len(req[r].calls) = 2
        /\ req[r].calls[1].body.success = "str"
        /\ req[r].calls[2].body.success = "false"
        /\ RunsOfCall(r, 1) # {} /\ RunsOfCall(r, 2) = {}
        /\ \E rec \in store : rec.id \in RunsOfCall(r, 1)

\* C2: for a single guarded request logAuditEntry is invoked at most once,
\* whatever the handler does with res.json and however many times the
\* interceptor is installed.
C2_AtMostOneRecorderPerRequest ==
    \A r \in DOMAIN req : Cardinality(RunsOf(r)) <= 1

\* C4: once logAuditEntry has been started for a call, the response has been
\* handed to the original res.json, whatever the state of that run (pending
\* lookup, pending write, failed); the response is the handler's body, and any
\* audit record exists only for a request already answered.
C4_ResponseNotBlocked ==
    \A k \in 1..Len(runs) :
        LET q == req[runs[k].req]
        IN  /\ q.sent # NoResponse
            /\ q.sent = FirstWritable(q.calls)

C4_Witness ==
    \E k \in 1..Len(runs) :
        /\ runs[k].st = "lookup"
        /\ req[runs[k].req].sent = req[runs[k].req].calls[runs[k].call]
        /\ req[runs[k].req].st = "finished"
        /\ store = {}

\* C5: when the store fails the audit write of a request, the request still
\* has the response (status and body) its handler produced, the promise of
\* logAuditEntry resolves, and nothing is raised that the handler's own
\* calls do not raise.
WriteFailed(k) ==
    runs[k].st = "failed" /\ runs[k].userName # Absent /\ ~runs[k].dbOk
C6_InterceptorNeverThrows ==
    \A r \in DOMAIN req :
        /\ "interceptor" \notin req[r].raised
        /\ req[r].calls # <<>> => req[r].sent # NoResponse

\* C7: a run of logAuditEntry whose actor cannot be resolved (no identity on
\* the request, or no such user when the lookup completes) ends skipped and
\* resolved, and no audit record stems from it.
ActorUnresolved(k) ==
    \/ req[runs[k].req].user = NoUser
    \/ runs[k].st \notin {"lookup", "failed"} /\ ~runs[k].found
    \/ runs[k].st = "failed" /\ runs[k].userName = Absent /\ runs[k].dbOk
C7_UnresolvedActorSkipped ==
    \A k \in 1..Len(runs) : ActorUnresolved(k) =>
        /\ runs[k].st = "skipped"
        /\ runs[k].settled = "resolved"
        /\ \A rec \in store : rec.id # k

C7_Witness ==
    \E k \in 1..Len(runs) :
        /\ req[runs[k].req].user # NoUser
        /\ users[req[runs[k].req].user] = Absent
        /\ runs[k].st = "skipped"
        /\ \E j \in 1..Len(runs) : runs[j].st = "written"

(***************************************************************************)
(* Properties of the record count                                          *)
(***************************************************************************)
AllSettled ==
    /\ \A r \in DOMAIN req : req[r].st = "finished"
    /\ \A k \in 1..Len(runs) : runs[k].settled # "pending"
RecordsWith(a) == {rec \in store : rec.action = a}
\* the requests with label a that returned a success body
SucceededWith(a) ==
    {r \in DOMAIN req : req[r].route.action = a /\ HasTruthySuccess(req[r].sent.body)}
\* the res.json calls made on requests with label a
CallsWith(a) ==
    {c \in (DOMAIN req) \X (1..MaxCalls) :
        req[c[1]].route.action = a /\ c[2] <= Len(req[c[1]].calls)}
\* the runs with label a whose lookup found the actor and whose document the
\* store accepted
AcceptedRunsWith(a) ==
    {k \in 1..Len(runs) :
        /\ req[runs[k].req].route.action = a
        /\ runs[k].found /\ runs[k].dbOk
        /\ RunDoc(k).targetId = Absent \/ CastsToObjectId(RunDoc(k).targetId)}

TypeOrder == <<"user", "service", "complaint", "event">>
\* the first index of TypeOrder whose pattern occurs in the path, 0 when none
FirstHit(path, Pattern(_)) ==
    LET hits == {i \in 1..Len(TypeOrder) : Includes(path, Pattern(TypeOrder[i]))}
    IN  IF hits = {} THEN 0 ELSE CHOOSE i \in hits : \A j \in hits : i <= j
Keyword(t) == <<t>>
Segment(t) == <<"/", t, "s">>
TypeAt(i) == IF i = 0 THEN "system" ELSE TypeOrder[i]

\* C8 as stated: the recorded targetType is the first of user, service,
\* complaint, event whose keyword occurs in the path, system when none does.
C8_FirstKeywordInPath ==
    probe.st = "recorded" =>
        probe.targetType = TypeAt(FirstHit(probe.path, Keyword))

\* C8 as amended: the recorded targetType is the first of user, service,
\* complaint, event whose segment "/users", "/services", "/complaints",
\* "/events" occurs in the path, system when none of the four occurs.
C8_FirstSegmentInPath ==
    probe.st = "recorded" =>
        probe.targetType = TypeAt(FirstHit(probe.path, Segment))

C8_Witness ==
    /\ probe.st = "recorded"
    /\ probe.path = <<"/", "service", "s", "/", "user", "s">>
    /\ probe.targetType = "user"

Present(v) == v \notin {Absent, NoData}

\* C9 as stated: whatever the targetType, the recorded targetId is the path
\* parameter id when present, else the id of the response's data when
\* present, else absent.
C9_TargetIdWhateverType ==
    probe.st = "recorded" =>
        probe.targetId =
            IF Present(probe.paramId) THEN probe.paramId
            ELSE IF Present(probe.dataId) THEN probe.dataId
            ELSE Absent

\* C9 as amended: when the inferred targetType is user, service, complaint
\* or event, the recorded targetId is the path parameter id when it is
\* non-empty, else the id of the response's data when that is non-empty, else
\* absent; when the targetType is system the targetId is absent.
NonEmpty(v) == v \notin {Absent, NoData, "empty"}
C9_TargetIdWhenTyped ==
    probe.st = "recorded" =>
        probe.targetId =
            IF probe.targetType = "system" THEN Absent
            ELSE IF NonEmpty(probe.paramId) THEN probe.paramId
            ELSE IF NonEmpty(probe.dataId) THEN probe.dataId
            ELSE Absent

C9_Witness ==
    /\ probe.st = "recorded"
    /\ probe.targetType = "event"
    /\ probe.paramId = Absent
    /\ probe.dataId = "oid2"
    /\ probe.targetId = "oid2"

(***************************************************************************)
(* Properties of the store                                                 *)
(***************************************************************************)
\* a document without actorId, action or targetType, or with a targetType
\* outside the closed set
LacksRequired(doc) ==
    \/ doc.userId = Absent
    \/ doc.action = Absent
    \/ doc.targetType = Absent
    \/ doc.targetType \notin {"user", "service", "complaint", "event", "system"}

\* C10: every stored audit record has actorId, action and targetType, with
\* targetType in the closed set; an insert of a document that lacks one of
\* them or carries another targetType is rejected and leaves the store
\* unchanged.
C10_RequiredFieldsEnforced ==
    [][ /\ \A rec \in store' : ~LacksRequired(rec)
        /\ (lastInsert' # lastInsert /\ LacksRequired(lastInsert'.doc)) =>
            (~lastInsert'.accepted /\ store' = store) ]_vars

C10_Witness ==
    /\ lastInsert.doc.targetType = "announcement"
    /\ lastInsert.doc.userId = "u1"
    /\ lastInsert.doc.action = "bulk_operation"
    /\ ~lastInsert.accepted
    /\ \E rec \in store : rec.targetType = "user"

(***************************************************************************)
(* Properties of retention                                                 *)
(***************************************************************************)
StoredIds(recs) == {rec.id : rec \in recs}

\* C11: a stored audit record is immutable: from its insertion until its
\* deletion every field (the actor-name snapshot and createdAt included)
\* keeps the value written at insertion, whatever the system does, a later
\* rename or deletion of the actor included.
C11_RecordsImmutable ==
    [][ /\ \A rec \in store : \A rec2 \in store' : rec2.id = rec.id => rec2 = rec
        /\ \A rec2 \in store' :
            rec2.id \notin StoredIds(store) =>
                /\ rec2.createdAt = now
                /\ rec2.userName = users[rec2.userId] ]_vars

C11_Witness ==
    /\ \E rec \in store : rec.userName = "Jane Admin" /\ rec.createdAt < now
    /\ \E rec \in store : rec.userName = "Jane Roe"
    /\ \A u \in UserIds : users[u] = Absent

\* the removals that the step from the current state adds to the log
Logged(log) == {log[i] : i \in 1..Len(log)}
NewRemovals == Logged(removals') \ Logged(removals)
LeavesBy(causes) ==
    \A rec \in store :
        rec.id \notin StoredIds(store') =>
            \E rm \in NewRemovals : rm.id = rec.id /\ rm.by \in causes

\* C12 as stated: an audit record leaves the store only through the
\* explicit purge or the automatic age-based eviction.
C12_OnlyPurgeOrTtl == [][LeavesBy({"purge", "ttl"})]_vars

\* C12: an audit record leaves the store only through the explicit purge,
\* the automatic age-based eviction, or the seed script, whose
\* dropDatabase() clears every collection; no other operation removes
\* audit records.
C12_OnlyPurgeTtlOrSeed == [][LeavesBy({"purge", "ttl", "seed"})]_vars

C12_Witness ==
    /\ \E i \in 1..Len(removals) : removals[i].by = "seed"
    /\ \E i \in 1..Len(removals) : removals[i].by \in {"purge", "ttl"}
    /\ \A u \in UserIds : users[u] = Absent

RemovalsBy(by) == {i \in 1..Len(removals) : removals[i].by = by}

\* C13: the automatic eviction removes a record only if its age (now minus
\* createdAt) exceeds the horizon of 90 days, configured as 7776000 seconds
\* = 90 * 24 * 3600; a record younger than that is never removed by the
\* sweep.
C13_TtlOnlyBeyondHorizon ==
    [][ /\ ExpireAfterSeconds = 90 * 24 * 3600
        /\ \A rm \in NewRemovals :
            rm.by = "ttl" =>
                Seconds(now) - Seconds(rm.createdAt) > 90 * 24 * 3600 ]_vars

C13_Witness ==
    /\ RemovalsBy("ttl") # {}
    /\ \E rec \in store : rec.createdAt < now

RemovalsOfCall(c) == {i \in RemovalsBy("purge") : removals[i].call = c}

\* C14: the purge is idempotent: when purge(d) is called twice in succession
\* and no record crossed the cutoff in between, the second call answers
\* deletedCount = 0 and removes nothing.
C14_SecondPurgeDeletesNothing ==
    (/\ purge.calls >= 2
     /\ purge.days = purge.prevDays
     /\ ~purge.crossed)
    => (purge.deleted = 0 /\ RemovalsOfCall(purge.calls) = {})

C14_Witness ==
    /\ purge.calls = 2
    /\ purge.st = "idle"
    /\ purge.days = purge.prevDays
    /\ ~purge.crossed
    /\ RemovalsOfCall(1) # {}
    /\ store # {}

\* C15: a purge computes its cutoff once, when it is called, and removes
\* only records whose createdAt is older than that cutoff; a record newer
\* than the cutoff, one inserted while the purge runs included, is never
\* removed by that purge.
C15_PurgeRespectsCallTimeCutoff ==
    /\ \A i \in RemovalsOfCall(purge.calls) :
        Seconds(removals[i].createdAt) < PurgeCutoff(purge.at, purge.days)
    /\ purge.calls > 0 => purge.cutoff = PurgeCutoff(purge.at, purge.days)

\* the purge is running and has removed a record; another record, inserted
\* after the purge was called, is still stored
C15_Witness ==
    /\ purge.st = "running"
    /\ RemovalsOfCall(purge.calls) # {}
    /\ \E rec \in store : rec.createdAt > purge.at

\* C16: under every interleaving of inserts, the background sweep and purge
\* calls, each record is removed at most once, every purge's deletedCount is
\* non-negative and equals the number of records that purge removed, and
\* the store's count equals inserts minus removals.
C16_CountsConsistent ==
    /\ \A i, j \in 1..Len(removals) :
        removals[i].id = removals[j].id => i = j
    /\ purge.deleted >= 0
    /\ purge.deleted = Cardinality(RemovalsOfCall(purge.calls))
    /\ Cardinality(store) = inserts - Len(removals)

C16_Witness ==
    /\ purge.st = "running"
    /\ purge.target # 0
    /\ \E i \in RemovalsBy("ttl") : removals[i].id = purge.target
    /\ purge.deleted > 0
    /\ inserts = MaxInserts

(***************************************************************************)
(* Properties of the listing                                               *)
(***************************************************************************)
Answered == listing.st = "done"
\* the stored audit records, newest first
Ranked == SortDesc(store, [rec \in store |-> rec.createdAt])
PageOfRanked(p, l) ==
    IF (p - 1) * l + 1 > Min(p * l, Len(Ranked)) THEN <<>>
    ELSE SubSeq(Ranked, (p - 1) * l + 1, Min(p * l, Len(Ranked)))

\* C17: for T matching records, the listing with page p and limit l returns
\* exactly the records ranked (p-1)*l+1 through min(p*l, T) in descending
\* createdAt order, and reports total = T and pages = ceil(T / l).
C17_PageOfMatchingRecords ==
    (/\ Answered
     /\ listing.query.filters = NoFilters
     /\ listing.query.page.k = "int" /\ listing.query.page.n >= 1
     /\ listing.query.limit.k = "int" /\ listing.query.limit.n >= 1)
    => LET p == listing.query.page.n
           l == listing.query.limit.n
       IN  /\ listing.resp.data = PageOfRanked(p, l)
           /\ listing.resp.total = Cardinality(store)
           /\ listing.resp.pages = Ceil(Cardinality(store), l)

\* C18: for every supplied page and limit (absent, zero, negative or
\* non-numeric included) the listing uses a page >= 1 and a page size >= 1,
\* page 1 and size 50 when they are absent, so the skip offset is never
\* negative.
C18_PageAndLimitClamped ==
    Answered =>
        /\ listing.resp.page >= 1
        /\ listing.resp.limit >= 1
        /\ listing.query.page.k = "absent" => listing.resp.page = 1
        /\ listing.query.limit.k = "absent" => listing.resp.limit = 50
        /\ listing.resp.skip >= 0

Satisfies(rec, f) ==
    /\ f.action # Absent => rec.action = f.action
    /\ f.targetType # Absent => rec.targetType = f.targetType
    /\ f.actorId # Absent => rec.userId = f.actorId
    /\ f.startDate # NoDate => rec.createdAt >= f.startDate
    /\ f.endDate # NoDate => rec.createdAt <= f.endDate

\* C19: every entry the listing returns is a stored audit record, and it
\* satisfies every filter of the request: action, targetType, actorId, and
\* createdAt within [startDate, endDate].
C19_EntriesAreMatchingRecords ==
    Answered =>
        \A e \in Range(listing.resp.data) :
            e \in store /\ Satisfies(e, listing.query.filters)

(***************************************************************************)
(* Properties of the notification fan-out                                  *)
(***************************************************************************)
\* socket c has sent the message event with this id on its connection
HasSent(c, event, id) == [event |-> event, id |-> id] \in conns[c].joins
\* the emission that the step from the current state makes
Emits == emits' # emits
LastEmitted == emits'[Len(emits')]

\* C20: room isolation: emitToUser(u, ...) is delivered only to connections
\* that joined user:u, and emitToRole(r, ...) only to connections that
\* joined role:r; a connection that joined only role rooms never receives an
\* emitToUser, whatever identity it is addressed to.
C20_RoomIsolation ==
    [][ Emits =>
          /\ LastEmitted.scope = "user" =>
                \A c \in LastEmitted.to : HasSent(c, "join", LastEmitted.target)
          /\ LastEmitted.scope = "role" =>
                \A c \in LastEmitted.to :
                    HasSent(c, "join-role", LastEmitted.target) ]_vars

\* an emitToUser("u1") reached socket 1 and not socket 2, which is connected
\* and has joined the roles "staff" and "u1" and no user room
C20_Witness ==
    /\ emits = <<Emission("user", "u1", {1})>>
    /\ conns[2].st = "connected"
    /\ conns[2].joins =
        {[event |-> "join-role", id |-> "staff"],
         [event |-> "join-role", id |-> "u1"]}
    /\ conns[2].rooms = {RoleRoom("staff"), RoleRoom("u1")}

IdentityRooms(c) == {room \in conns[c].rooms : room[1] = "user:"}

\* C21: in every reachable state a connection is a member of at most one
\* identity room (user:<id>), whatever join messages it has sent.
C21_AtMostOneIdentityRoom ==
    \A c \in Conns : Cardinality(IdentityRooms(c)) <= 1

\* the emissions of the step that reach socket c
DeliveredTo(c) == {i \in 1..Len(emits') : c \in emits'[i].to}
\* socket c sends a join message it has sent before
Rejoins(c) ==
    /\ conns[c].st = "connected" /\ conns'[c].st = "connected"
    /\ conns'[c].joins = conns[c].joins

InScope(scope, target) ==
    {c \in Conns :
        /\ conns[c].st = "connected"
        /\ scope = "user" => UserRoom(target) \in conns[c].rooms
        /\ scope = "role" => RoleRoom(target) \in conns[c].rooms}

\* C23: an emission reaches only connections that are connected and members
\* of its scope at the moment of emission: a disconnected connection is in
\* no room and receives nothing, and a connection that connects or joins
\* after an emission never receives it (nothing is replayed).
C23_OnlyCurrentMembersNoReplay ==
    [][ /\ Emits =>
            LastEmitted.to \subseteq InScope(LastEmitted.scope, LastEmitted.target)
        /\ \A c \in Conns : conns'[c].st = "closed" => conns'[c].rooms = {}
        /\ conns' # conns => emits' = emits ]_vars

\* an emission to role "staff" reached socket 1, which has since
\* disconnected; socket 2 joined the role afterwards and is not a recipient
C23_Witness ==
    /\ emits = <<Emission("role", "staff", {1})>>
    /\ conns[1].st = "closed"
    /\ conns[2].st = "connected"
    /\ RoleRoom("staff") \in conns[2].rooms

(***************************************************************************)
(* Properties of the announcement handlers                                 *)
(***************************************************************************)
Finished(o) == ops[o].st = "done"
Quiescent == \A o \in OpIds : ops[o].st \in {"new", "done"}

\* C24: a failure of the emission (the emit call throwing, or the server
\* instance not being initialised) never changes the outcome of an
\* announcement operation: once its change is committed, the operation
\* answers with its success status.
C24_EmitFailureKeepsSuccess ==
    \A o \in OpIds :
        Finished(o) /\ ops[o].committed =>
            ops[o].status = SuccessStatus(ops[o].kind)

\* C25: an operation that took the announcement out of the published state
\* (update, toggle or delete) and whose emission did not fail has broadcast
\* ANNOUNCEMENT_UNPUBLISHED or ANNOUNCEMENT_DELETED.
C25_UnpublishAnnounced ==
    \A o \in OpIds :
        Finished(o) /\ ops[o].unpublished /\ io /\ ~ops[o].threw =>
            EventOf(ops[o].kind, ops[o].local) \in
                {"ANNOUNCEMENT_UNPUBLISHED", "ANNOUNCEMENT_DELETED"}

\* C26: after any sequence of create, update and toggle operations a
\* published announcement has publishedAt set, and publishedAt, once set, is
\* not changed by a later operation on the announcement.
C26_PublishedAtSetOnce ==
    [][ /\ ann'.exists /\ ann'.isPublished => ann'.publishedAt # NoDate
        /\ ann.exists /\ ann'.exists /\ ann.publishedAt # NoDate =>
               ann'.publishedAt = ann.publishedAt ]_vars

OnlyKind(kind) == \A o \in OpIds : ops[o].kind \in {kind, "none"}
LastEvent == events[Len(events)]

\* C27: when concurrent toggle requests on the announcement have all
\* completed and every one of them broadcast its event, the type of the last
\* event broadcast agrees with the stored isPublished.
C27_LastEventAgreesWithStored ==
    /\ Quiescent /\ OnlyKind("toggle") /\ ann.exists /\ io
    /\ \A o \in OpIds : ~ops[o].threw
    /\ events # <<>>
    => LastEvent = EventOf("toggle", ann)

Returned == {o \in OpIds : Finished(o) /\ ops[o].status = "200"}

\* C28: when the only requests are reads of the announcement and all have
\* completed, views is its initial value (0) plus the number of requests
\* that returned the announcement; 403 and 404 answers do not count.
C28_ViewsCountReturns ==
    Quiescent /\ OnlyKind("get") /\ ann.exists =>
        ann.views = Cardinality(Returned)

====
